---- MODULE Spec2Model ----
(***************************************************************************)
(* Qualisem Productos: the warehouse catalogue (table productos) and the   *)
(* stock ledger (table movimientos) of src/app.py, as a state machine.     *)
(*                                                                         *)
(* Every Streamlit session runs the script in a thread of its own and each *)
(* DAO function opens a connection of its own (get_conn), so the sessions  *)
(* interleave at the granularity of SQL statements.  The committed content *)
(* of the database file is <<productos, movimientos, seq_productos,        *)
(* seq_movimientos>>; the uncommitted writes of an open transaction live   *)
(* in the session that opened it and are invisible to the other sessions   *)
(* (SQLite, rollback journal).  Quantities are modelled as integers, and   *)
(* of a product row the three required texts and the stock are kept.      *)
(***************************************************************************)
EXTENDS Integers, Sequences, FiniteSets, TLC

(* ------------------------------ bounds -------------------------------- *)
MaxLen == 1           \* longest text typed into a form field
MaxProductos == 2     \* products ever created
MaxMovimientos == 2   \* ledger rows ever committed
MaxCantidad == 2      \* largest quantity typed into a form

Sessions == {"s1", "s2"}
Chars == {"a", " "}
Texts == UNION {[1..n -> Chars] : n \in 0..MaxLen}
Ids == 1..(MaxProductos + 1)
Cantidades == (-1)..MaxCantidad
Tipos == {"ingreso", "consumo", "ajuste"}
\* what a caller may pass as tipo: the Literal annotation is not enforced, and
\* "entrada" is a name that versions before migrate_db used
TiposPasados == Tipos \cup {"entrada"}
NoLocal == [producto_id |-> 0, tipo |-> "ingreso", cantidad |-> 0, nuevo_stock |-> 0]

VARIABLES
    productos,        \* committed rows of productos: id -> row
    movimientos,      \* committed rows of movimientos, in insertion order
    seq_productos,    \* sqlite_sequence of productos (AUTOINCREMENT)
    seq_movimientos,  \* sqlite_sequence of movimientos (AUTOINCREMENT)
    pc,               \* per session: the statement of registrar_movimiento it is at
    local,            \* per session: producto_id, tipo, cantidad, nuevo_stock
    writer,           \* the session holding the database write lock, or "none"
    ret               \* how the call that ended last ended

vars == <<productos, movimientos, seq_productos, seq_movimientos, pc, local, writer, ret>>
db == <<productos, movimientos, seq_productos, seq_movimientos>>

(* --------------------------- pure helpers ----------------------------- *)

\* Python's str.strip() on a text made of Chars
RECURSIVE lstrip(_)
lstrip(t) == IF t # <<>> /\ Head(t) = " " THEN lstrip(Tail(t)) ELSE t

RECURSIVE rstrip(_)
rstrip(t) ==
    IF t # <<>> /\ t[Len(t)] = " " THEN rstrip(SubSeq(t, 1, Len(t) - 1)) ELSE t

strip(t) == rstrip(lstrip(t))

\* Python truthiness of a str
truthy(t) == Len(t) > 0

\* nuevo_stock_de with ajuste taken as a delta
nuevo_stock_ajuste_delta(stock_actual, tipo, cantidad) ==
    IF tipo = "consumo" THEN stock_actual - cantidad ELSE stock_actual + cantidad

\* the stock rule of registrar_movimiento, tipo by tipo
nuevo_stock_de(stock_actual, tipo, cantidad) ==
    IF tipo = "ingreso" THEN stock_actual + cantidad
    ELSE IF tipo = "consumo" THEN stock_actual - cantidad
    ELSE cantidad

\* cantidad_invalida letting 0 through
cantidad_negativa(cantidad) == cantidad < 0

\* "if cantidad <= 0: raise ValueError"
cantidad_invalida(cantidad) == cantidad <= 0

\* stock_insuficiente letting the stock go one below 0
stock_insuficiente_menos_uno(tipo, nuevo_stock) == tipo = "consumo" /\ nuevo_stock < -1

\* the consumo branch's check
stock_insuficiente(tipo, nuevo_stock) == tipo = "consumo" /\ nuevo_stock < 0

\* cascade with the foreign keys switched off
sin_cascade(movs, producto_id) == movs

\* FOREIGN KEY ... ON DELETE CASCADE, with PRAGMA foreign_keys = ON
cascade(movs, producto_id) ==
    SelectSeq(movs, LAMBDA m : m.producto_id # producto_id)

\* check_tipo with the CHECK constraint missing from the table
sin_check_tipo(tipo) == TRUE

\* CHECK (tipo IN ('ingreso','consumo','ajuste')), checked on INSERT
check_tipo(tipo) == tipo \in Tipos

\* migrate_db: 'entrada' becomes 'ingreso' and 'salida' becomes 'consumo'
normalizar_tipo(tipo) ==
    IF tipo = "entrada" THEN "ingreso"
    ELSE IF tipo = "salida" THEN "consumo"
    ELSE tipo

\* FOREIGN KEY(producto_id) REFERENCES productos(id), checked on INSERT
fk_ok(producto_id) == producto_id \in DOMAIN productos

\* movimientos_df(producto_id=...): the JOIN with productos and the id filter
\* ("if producto_id:" makes 0 mean no filter)
movimientos_df(producto_id) ==
    SelectSeq(movimientos,
              LAMBDA m : /\ m.producto_id \in DOMAIN productos
                         /\ (producto_id # 0 => m.producto_id = producto_id))

\* select_stock answering stock 0 for a product that is not there
select_stock_sin_none(producto_id) ==
    IF producto_id \in DOMAIN productos THEN <<productos[producto_id].stock>> ELSE <<0>>

\* "SELECT stock FROM productos WHERE id=?" and fetchone(): the row, or <<>> for None
select_stock(producto_id) ==
    IF producto_id \in DOMAIN productos THEN <<productos[producto_id].stock>> ELSE <<>>

idle(s) == pc[s] = "idle"
\* a write statement needs the write lock; it waits while a session holds it
lock_free == writer = "none"

(* ----------------------------- the state ------------------------------ *)

Init ==
    /\ productos = <<>>
    /\ movimientos = <<>>
    /\ seq_productos = 0
    /\ seq_movimientos = 0
    /\ pc = [s \in Sessions |-> "idle"]
    /\ local = [s \in Sessions |-> NoLocal]
    /\ writer = "none"
    /\ ret = "none"

(* ------------------------------ catalogue ----------------------------- *)

\* add_producto on a table without AUTOINCREMENT: the id is the largest id plus 1
add_producto_max_id(nombre, ingrediente_activo, categoria) ==
    /\ lock_free
    /\ productos' =
           productos @@
              ((IF DOMAIN productos = {} THEN 1
                ELSE 1 + CHOOSE i \in DOMAIN productos :
                            \A j \in DOMAIN productos : j <= i) :>
               [nombre |-> strip(nombre),
                ingrediente_activo |-> strip(ingrediente_activo),
                categoria |-> strip(categoria),
                stock |-> 0])
    /\ seq_productos' = seq_productos + 1
    /\ ret' = "ok"
    /\ UNCHANGED <<movimientos, seq_movimientos, pc, local, writer>>

\* add_producto: one INSERT and its commit; the texts are stored stripped, stock 0
add_producto(nombre, ingrediente_activo, categoria) ==
    /\ lock_free
    /\ productos' =
           productos @@ ((seq_productos + 1) :>
               [nombre |-> strip(nombre),
                ingrediente_activo |-> strip(ingrediente_activo),
                categoria |-> strip(categoria),
                stock |-> 0])
    /\ seq_productos' = seq_productos + 1
    /\ ret' = "ok"
    /\ UNCHANGED <<movimientos, seq_movimientos, pc, local, writer>>

\* the submit handler of form_producto: the required-fields test, then add_producto
form_producto_submit(nombre, ingrediente_activo, categoria) ==
    /\ seq_productos < MaxProductos
    /\ IF ~(truthy(nombre) /\ truthy(ingrediente_activo) /\ truthy(categoria))
       THEN /\ ret' = "campos_obligatorios"
            /\ UNCHANGED <<db, pc, local, writer>>
       ELSE add_producto(nombre, ingrediente_activo, categoria)

\* update_producto with stock among the columns it sets (as a REPLACE would)
update_producto_con_stock(producto_id, nombre, ingrediente_activo, categoria) ==
    /\ lock_free
    /\ productos' =
           [i \in DOMAIN productos |->
               IF i = producto_id
               THEN [nombre |-> strip(nombre),
                     ingrediente_activo |-> strip(ingrediente_activo),
                     categoria |-> strip(categoria),
                     stock |-> 0]
               ELSE productos[i]]
    /\ ret' = "ok"
    /\ UNCHANGED <<movimientos, seq_productos, seq_movimientos, pc, local, writer>>

\* update_producto: one UPDATE ... WHERE id=? and its commit; no row count is read
update_producto(producto_id, nombre, ingrediente_activo, categoria) ==
    /\ lock_free
    /\ productos' =
           [i \in DOMAIN productos |->
               IF i = producto_id
               THEN [productos[i] EXCEPT
                        !.nombre = strip(nombre),
                        !.ingrediente_activo = strip(ingrediente_activo),
                        !.categoria = strip(categoria)]
               ELSE productos[i]]
    /\ ret' = "ok"
    /\ UNCHANGED <<movimientos, seq_productos, seq_movimientos, pc, local, writer>>

\* delete_producto: one DELETE ... WHERE id=? and its commit, with the cascade
delete_producto(producto_id) ==
    /\ lock_free
    /\ productos' = [i \in DOMAIN productos \ {producto_id} |-> productos[i]]
    /\ movimientos' = cascade(movimientos, producto_id)
    /\ ret' = "ok"
    /\ UNCHANGED <<seq_productos, seq_movimientos, pc, local, writer>>

(* ------------------------- registrar_movimiento ----------------------- *)

\* lines 215-236: the quantity test, the SELECT, the stock rule and its check
registrar_select(s, producto_id, tipo, cantidad) ==
    /\ idle(s)
    /\ IF cantidad_invalida(cantidad)
       THEN /\ ret' = "cantidad_mayor_a_0"
            /\ UNCHANGED <<db, pc, local, writer>>
       ELSE IF select_stock(producto_id) = <<>>
       THEN /\ ret' = "producto_no_encontrado"
            /\ UNCHANGED <<db, pc, local, writer>>
       ELSE LET stock_actual == select_stock(producto_id)[1]
                nuevo_stock == nuevo_stock_de(stock_actual, tipo, cantidad)
            IN  IF stock_insuficiente(tipo, nuevo_stock)
                THEN /\ ret' = "stock_insuficiente"
                     /\ UNCHANGED <<db, pc, local, writer>>
                ELSE /\ seq_movimientos < MaxMovimientos
                     /\ pc' = [pc EXCEPT ![s] = "insert"]
                     /\ local' = [local EXCEPT ![s] =
                            [producto_id |-> producto_id, tipo |-> tipo,
                             cantidad |-> cantidad, nuevo_stock |-> nuevo_stock]]
                     /\ ret' = "none"
                     /\ UNCHANGED <<db, writer>>

\* registrar_insert on a connection in autocommit mode: the row is visible at once
registrar_insert_autocommit(s) ==
    /\ pc[s] = "insert"
    /\ lock_free
    /\ seq_movimientos < MaxMovimientos
    /\ fk_ok(local[s].producto_id)
    /\ check_tipo(local[s].tipo)
    /\ movimientos' = Append(movimientos,
           [id |-> seq_movimientos + 1,
            producto_id |-> local[s].producto_id,
            tipo |-> local[s].tipo,
            cantidad |-> local[s].cantidad])
    /\ writer' = s
    /\ pc' = [pc EXCEPT ![s] = "update"]
    /\ UNCHANGED <<productos, seq_productos, seq_movimientos, local, ret>>

\* line 242: the INSERT opens the transaction (implicit BEGIN) and takes the write
\* lock; the foreign key is checked against the committed productos, and the CHECK
\* of tipo against the row
registrar_insert(s) ==
    /\ pc[s] = "insert"
    /\ lock_free
    /\ seq_movimientos < MaxMovimientos
    /\ IF fk_ok(local[s].producto_id) /\ check_tipo(local[s].tipo)
       THEN /\ writer' = s
            /\ pc' = [pc EXCEPT ![s] = "update"]
            /\ UNCHANGED <<db, local, ret>>
       ELSE /\ pc' = [pc EXCEPT ![s] = "idle"]
            /\ local' = [local EXCEPT ![s] = NoLocal]
            /\ ret' = "integrity_error"
            /\ UNCHANGED <<db, writer>>

\* line 244: the UPDATE of stock, inside the open transaction
registrar_update(s) ==
    /\ pc[s] = "update"
    /\ writer = s
    /\ pc' = [pc EXCEPT ![s] = "commit"]
    /\ UNCHANGED <<db, local, writer, ret>>

\* lines 246-247: commit makes the row and the stock visible and frees the lock
registrar_commit(s) ==
    /\ pc[s] = "commit"
    /\ writer = s
    /\ movimientos' = Append(movimientos,
           [id |-> seq_movimientos + 1,
            producto_id |-> local[s].producto_id,
            tipo |-> local[s].tipo,
            cantidad |-> local[s].cantidad])
    /\ seq_movimientos' = seq_movimientos + 1
    /\ productos' = [productos EXCEPT ![local[s].producto_id].stock = local[s].nuevo_stock]
    /\ writer' = "none"
    /\ pc' = [pc EXCEPT ![s] = "idle"]
    /\ local' = [local EXCEPT ![s] = NoLocal]
    /\ ret' = "ok"
    /\ UNCHANGED seq_productos

\* a failure inside the open transaction (an exception, the process killed): the
\* connection is dropped without commit and SQLite rolls the transaction back
rollback(s) ==
    /\ pc[s] \in {"update", "commit"}
    /\ writer = s
    /\ writer' = "none"
    /\ pc' = [pc EXCEPT ![s] = "idle"]
    /\ local' = [local EXCEPT ![s] = NoLocal]
    /\ ret' = "failed"
    /\ UNCHANGED db

\* sqlite3.connect's default timeout: a write statement (the INSERT of line 242, or
\* the statement of a catalogue call of a session that is in no call) that waited
\* too long for the write lock raises OperationalError("database is locked")
database_is_locked(s) ==
    /\ writer \notin {"none", s}
    /\ pc[s] \in {"idle", "insert"}
    /\ pc' = [pc EXCEPT ![s] = "idle"]
    /\ local' = [local EXCEPT ![s] = NoLocal]
    /\ ret' = "database_is_locked"
    /\ UNCHANGED <<db, writer>>

\* migrate_db, run at the top of every run of the script: the columns are there
\* already, and the two UPDATEs rename the tipo of the rows that have an old name
migrate_db ==
    /\ lock_free
    /\ movimientos' =
           [i \in 1..Len(movimientos) |->
               [movimientos[i] EXCEPT !.tipo = normalizar_tipo(movimientos[i].tipo)]]
    /\ UNCHANGED <<productos, seq_productos, seq_movimientos, pc, local, writer, ret>>

(* --------------------------- specifications --------------------------- *)

\* the texts that are not blank
Rellenos == {t \in Texts : strip(t) # <<>>}

\* a call of registrar_movimiento in session s, statement by statement
Movimiento(s) ==
    \/ \E producto_id \in Ids, tipo \in TiposPasados, cantidad \in Cantidades :
           registrar_select(s, producto_id, tipo, cantidad)
    \/ registrar_insert(s)
    \/ registrar_update(s)
    \/ registrar_commit(s)
    \/ rollback(s)

\* a catalogue call, each one SQL statement, of whichever session, typing texts of T
Catalogo(T) ==
    \/ \E nombre \in T, ingrediente_activo \in T, categoria \in T :
           form_producto_submit(nombre, ingrediente_activo, categoria)
    \/ \E producto_id \in Ids, nombre \in T, ingrediente_activo \in T,
          categoria \in T :
           update_producto(producto_id, nombre, ingrediente_activo, categoria)
    \/ \E producto_id \in Ids : delete_producto(producto_id)

\* The sessions interleaved statement by statement.  The texts of the catalogue play
\* no part in the interleaving, so here the forms are filled in with texts that are
\* not blank; SerialSpec types every text.
Next ==
    \/ migrate_db
    \/ Catalogo(Rellenos)
    \/ \E s \in Sessions : Movimiento(s)
    \/ \E s \in Sessions : database_is_locked(s)

Spec == Init /\ [][Next]_vars

\* The calls one after the other, none starting while another is in flight, with
\* every text typed into the forms.
SerialNext ==
    \/ (\A t \in Sessions : pc[t] = "idle") /\ migrate_db
    \/ (\A t \in Sessions : pc[t] = "idle") /\ Catalogo(Texts)
    \/ \E s \in Sessions : (\A t \in Sessions \ {s} : pc[t] = "idle") /\ Movimiento(s)

SerialSpec == Init /\ [][SerialNext]_vars

TypeOK ==
    /\ DOMAIN productos \subseteq Ids
    /\ seq_productos \in 0..MaxProductos
    /\ seq_movimientos \in 0..MaxMovimientos
    /\ pc \in [Sessions -> {"idle", "insert", "update", "commit"}]
    /\ writer \in Sessions \cup {"none"}

(* ------------------------------ the claims ---------------------------- *)

\* the stock rule as the specification words it: a receipt adds, a consumption
\* subtracts, an adjustment replaces
aplicar(valor, tipo, cantidad) ==
    CASE tipo = "ingreso" -> valor + cantidad
      [] tipo = "consumo" -> valor - cantidad
      [] tipo = "ajuste" -> cantidad

\* the ledger of product p replayed from 0 over the first n rows, in insertion order
RECURSIVE reproducir(_, _)
reproducir(p, n) ==
    IF n = 0 THEN 0
    ELSE IF movimientos[n].producto_id = p
         THEN aplicar(reproducir(p, n - 1), movimientos[n].tipo, movimientos[n].cantidad)
         ELSE reproducir(p, n - 1)

\* the last row of the ledger
ultimo(movs) == movs[Len(movs)]

\* this step made a new row of the ledger visible
fila_nueva == Len(movimientos') = Len(movimientos) + 1

\* the ids of the products created and since deleted
borrados == (1..seq_productos) \ DOMAIN productos

\* C1: in every reachable state, whatever Create, Update, Delete and RecordMovement
\* calls led there and however they interleaved, no product has a negative stock.
C1_StockNoNegativo == \A p \in DOMAIN productos : productos[p].stock >= 0

\* a consumption has taken a product's stock down to exactly 0
C1_Witness ==
    /\ movimientos # <<>>
    /\ ultimo(movimientos).tipo = "consumo"
    /\ productos[ultimo(movimientos).producto_id].stock = 0

\* C2: with the calls run one after the other, every product's stock equals its
\* ledger replayed from 0 in insertion order under the stock rule.
C2_StockEsElLedger ==
    \A p \in DOMAIN productos : productos[p].stock = reproducir(p, Len(movimientos))

\* a product whose ledger is a receipt and then an adjustment to another value
C2_Witness ==
    /\ Len(movimientos) = 2
    /\ movimientos[1].producto_id = movimientos[2].producto_id
    /\ movimientos[1].tipo = "ingreso"
    /\ movimientos[2].tipo = "ajuste"
    /\ movimientos[1].cantidad # movimientos[2].cantidad
    /\ \A s \in Sessions : pc[s] = "idle"

\* C3: RecordMovement calls on one product serialize: the stock a call commits is the
\* stock rule applied to the stock committed just before, and a consumption commits
\* only if that leaves the stock at 0 or more.
C3_Serializa ==
    [][\A s \in Sessions :
          (pc[s] = "commit" /\ pc'[s] = "idle" /\ fila_nueva) =>
              LET p == local[s].producto_id
                  esperado == aplicar(productos[p].stock, local[s].tipo, local[s].cantidad)
              IN  /\ productos'[p].stock = esperado
                  /\ esperado >= 0]_vars

\* C4: the row of a movement and the stock it sets become visible in one step: a step
\* that shows a new row sets the row's product to the stock computed for that row, and
\* a step that changes a product's stock shows a new row of that product.
C4_EscriturasJuntas ==
    [][/\ fila_nueva =>
             \E s \in Sessions :
                /\ pc[s] \in {"insert", "update", "commit"}
                /\ ultimo(movimientos').producto_id = local[s].producto_id
                /\ ultimo(movimientos').producto_id \in DOMAIN productos'
                /\ productos'[local[s].producto_id].stock = local[s].nuevo_stock
       /\ \A p \in DOMAIN productos \cap DOMAIN productos' :
             productos'[p].stock # productos[p].stock =>
                fila_nueva /\ ultimo(movimientos').producto_id = p]_vars

\* a call failed between its two writes and the database shows neither, after an
\* earlier call had shown both
C4_Witness ==
    /\ ret = "failed"
    /\ Len(movimientos) = 1
    /\ productos[movimientos[1].producto_id].stock = movimientos[1].cantidad

\* C5: a consumption of more than the product's stock ends with "stock insuficiente"
\* and leaves the products and the ledger as they were, with nothing left to write.
C5_ConsumoExcesivo ==
    [][\A s \in Sessions, p \in Ids, c \in Cantidades :
          (/\ p \in DOMAIN productos
           /\ c > productos[p].stock
           /\ registrar_select(s, p, "consumo", c)) =>
              /\ ret' = "stock_insuficiente"
              /\ pc'[s] = "idle"
              /\ productos' = productos
              /\ movimientos' = movimientos]_vars

\* a consumption was refused on a product that has stock and a ledger
C5_Witness ==
    /\ ret = "stock_insuficiente"
    /\ \E p \in DOMAIN productos :
          productos[p].stock > 0 /\ reproducir(p, Len(movimientos)) > 0

\* C6: a quantity of 0 or less ends with "la cantidad debe ser mayor a 0" for every
\* kind and every product id, existing or not, and leaves the products and the ledger
\* as they were.
C6_CantidadNoPositiva ==
    [][\A s \in Sessions, p \in Ids, tp \in TiposPasados, c \in Cantidades :
          (c <= 0 /\ registrar_select(s, p, tp, c)) =>
              /\ ret' = "cantidad_mayor_a_0"
              /\ pc'[s] = "idle"
              /\ productos' = productos
              /\ movimientos' = movimientos]_vars

\* the quantity was refused although no product exists at all
C6_Witness == ret = "cantidad_mayor_a_0" /\ DOMAIN productos = {}

\* C7: a positive quantity for a product id that does not exist ends with "producto
\* no encontrado" and writes nothing.
C7_ProductoNoEncontrado ==
    [][\A s \in Sessions, p \in Ids, tp \in TiposPasados, c \in Cantidades :
          (c > 0 /\ p \notin DOMAIN productos /\ registrar_select(s, p, tp, c)) =>
              /\ ret' = "producto_no_encontrado"
              /\ pc'[s] = "idle"
              /\ productos' = productos
              /\ movimientos' = movimientos]_vars

\* the product was not found because it had been deleted
C7_Witness == ret = "producto_no_encontrado" /\ borrados # {}

\* C8: every row of the ledger references an existing product, and the history
\* filtered by the id of a deleted product is empty.
C8_SinHuerfanos ==
    /\ \A i \in 1..Len(movimientos) : movimientos[i].producto_id \in DOMAIN productos
    /\ \A p \in borrados : movimientos_df(p) = <<>>

\* a product that had rows in the ledger was deleted, and another keeps its rows
C8_Witness ==
    /\ borrados # {}
    /\ Len(movimientos) = 1
    /\ seq_movimientos = 2

\* C9: Create refuses a name, active ingredient or category that is blank once
\* stripped, and no stored product has one of them empty.
C9_CreateValida ==
    [][\A n \in Texts, i \in Texts, c \in Texts :
          (/\ strip(n) = <<>> \/ strip(i) = <<>> \/ strip(c) = <<>>
           /\ form_producto_submit(n, i, c)) =>
              /\ ret' = "campos_obligatorios"
              /\ productos' = productos]_vars

\* C10: Update of an id that does not exist ends with "producto no encontrado" and
\* changes no product.
C10_UpdateNoEncontrado ==
    [][\A p \in Ids, n \in Texts, i \in Texts, c \in Texts :
          (p \notin DOMAIN productos /\ update_producto(p, n, i, c)) =>
              /\ ret' = "producto_no_encontrado"
              /\ productos' = productos]_vars

\* C11: a product's stock changes only in the step that commits a movement naming
\* that product, so every other step (Update, Create, Delete, a movement of another
\* product) leaves it as it was; a call that ends in an error changes no stock, and a
\* product that appears starts with stock 0.
C11_SoloElLedgerCambiaElStock ==
    [][/\ \A p \in DOMAIN productos \cap DOMAIN productos' :
             productos'[p].stock # productos[p].stock =>
                \E s \in Sessions : registrar_commit(s) /\ local[s].producto_id = p
       /\ \A p \in DOMAIN productos' \ DOMAIN productos : productos'[p].stock = 0
       /\ ret' \notin {"ok", "none", ret} =>
             \A p \in DOMAIN productos \cap DOMAIN productos' :
                productos'[p].stock = productos[p].stock]_vars

\* product 1 has kept stock 0 while product 2, created after it, took a movement and
\* then a call was refused
C11_Witness ==
    /\ DOMAIN productos = {1, 2}
    /\ productos[1].stock = 0
    /\ productos[2].stock > 0
    /\ ret = "stock_insuficiente"

\* C12: the id a Create assigns is larger than the AUTOINCREMENT counter, which never
\* goes down and is at least every id assigned so far, so it differs from the id of
\* every product created earlier, deleted or not.
C12_IdNuncaReusado ==
    [][/\ seq_productos' >= seq_productos
       /\ \A p \in DOMAIN productos' : p <= seq_productos'
       /\ \A p \in DOMAIN productos' \ DOMAIN productos : p > seq_productos]_vars

\* product 1 was deleted and the only product there is has id 2
C12_Witness == DOMAIN productos = {2} /\ borrados = {1}

\* C13: a row of the ledger stays as it was inserted: in every step each row either
\* is still there, field for field and in the same order, or its product is deleted in
\* that very step.
C13_MovimientoInmutable ==
    [][/\ \A i \in 1..Len(movimientos) :
             \/ \E j \in 1..Len(movimientos') : movimientos'[j] = movimientos[i]
             \/ /\ movimientos[i].producto_id \in DOMAIN productos
                /\ movimientos[i].producto_id \notin DOMAIN productos'
                /\ \A j \in 1..Len(movimientos') : movimientos'[j].id # movimientos[i].id
       /\ \A i \in 1..Len(movimientos), j \in 1..Len(movimientos') :
             movimientos'[j].id = movimientos[i].id => movimientos'[j] = movimientos[i]
       /\ \A j \in 1..Len(movimientos'), k \in 1..Len(movimientos') :
             j < k => movimientos'[j].id < movimientos'[k].id]_vars

\* of two rows the first is gone with its product and the second is as inserted
C13_Witness ==
    /\ Len(movimientos) = 1
    /\ movimientos[1].id = 2
    /\ borrados # {}
    /\ movimientos[1].tipo \in Tipos

====
